---- MODULE Spec2Model ----
(***************************************************************************)
(* RustyRogue (src/RustyRogue/src/main.rs): a 3D tile map stored in one    *)
(* flat vector, two objects (player and NPC), the field-of-view            *)
(* bookkeeping of the main loop and the key handler.                       *)
(*                                                                         *)
(* Two specifications are defined over the same variables:                 *)
(*   Spec      the turn loop of main()                                     *)
(*   SpecUnit  direct calls of the pure operations (Object::new,           *)
(*             Object::standing, Object::move_by, is_blocked, the tile     *)
(*             lookup, render_all) on inputs drawn from bounded sets       *)
(***************************************************************************)
EXTENDS Integers, Sequences, FiniteSets, TLC

VARIABLES
    objects,                   \* main: `objects`, index 0 is the player
    map,                       \* main: `map`, the vector built by make_map
    previous_player_position,  \* main: `previous_player_position`
    fov_map,                   \* main: `fov_map`, viewpoint of the last compute_fov
    fov_recompute,             \* main: `fov_recompute` of the latest render
    fullscreen,                \* root.is_fullscreen()
    key,                       \* the key returned by the latest wait_for_keypress
    lookup,                    \* the tile lookup made by the latest move_by
    pc,                        \* position of main: "render", "input", "done", "panic"
    con,                       \* main: `con`, the cells of the offscreen console holding a glyph
    frame,                     \* the cells holding a glyph in the frame of the latest flush
    probe                      \* SpecUnit: the latest direct call and its result

vars == <<objects, map, previous_player_position, fov_map, fov_recompute,
          fullscreen, key, lookup, pc, con, frame, probe>>

-----------------------------------------------------------------------------
(* Constants of the program *)

SCREEN_WIDTH == 90
SCREEN_HEIGHT == 60
MAP_WIDTH == 80
MAP_HEIGHT == 50
MAP_DEPTH == 20
TORCH_RADIUS == 10
FOV_LIGHT_WALLS == TRUE
\* The layer main copies into the FOV map (`mAlg(x, y, 10)`).
FOV_LAYER == 10
\* The layer render_all reads the tiles from (`MAP_DEPTH * 10`).
RENDER_LAYER == 10
\* Mutant of PLAYER: the key handler is handed the second object.
PLAYER_second == 0 + 1
PLAYER == 0

(* Bounds of the model *)

\* How many cells outside the MAP_WIDTH x MAP_HEIGHT rectangle the turn loop
\* of the model follows the player.
MaxOut == 1
\* SpecUnit probes the cells within this (Chebyshev) distance of its anchors.
ProbeRadius == 1
\* SpecUnit calls standing() at most this many times on one object.
MaxCalls == 2

-----------------------------------------------------------------------------
(* Tile *)

Tile_empty == [blocked |-> FALSE, block_sight |-> FALSE]
Tile_wall == [blocked |-> TRUE, block_sight |-> TRUE]

-----------------------------------------------------------------------------
(* Index arithmetic *)

\* A usize is 64 bits wide, beyond the integers of TLC.  It is held as its
\* four 16-bit limbs, most significant first: <<a, b, c, d>> is the number
\* ((a * 2^16 + b) * 2^16 + c) * 2^16 + d.
USIZE_LIMB == 65536

\* `v as usize` for an i32 v: sign extension to 64 bits, so a negative v
\* becomes 2^64 + v (-1 becomes usize::MAX).
AsUsize(v) ==
    IF v < 0
    THEN <<USIZE_LIMB - 1, USIZE_LIMB - 1, USIZE_LIMB + (v \div USIZE_LIMB), v % USIZE_LIMB>>
    ELSE <<0, 0, v \div USIZE_LIMB, v % USIZE_LIMB>>

\* The usize u is less than n, a length below 2^31.
UsizeBelow(u, n) ==
    /\ u[1] = 0
    /\ u[2] = 0
    /\ u[3] < USIZE_LIMB \div 2
    /\ u[3] * USIZE_LIMB + u[4] < n

\* Mutant of mAlg: x is multiplied in (the expression left in the comment of
\* Object::draw).
mAlg_product(x, y, z) == AsUsize(x * MAP_WIDTH * (y + MAP_DEPTH * z))

mAlg(x, y, z) == AsUsize(x + MAP_WIDTH * (y + MAP_DEPTH * z))

-----------------------------------------------------------------------------
(* Map: a Vec<Tile> of length len.  Only wall() and empty() tiles exist, so *)
(* the vector is held as its length and the set of indices (usize values)   *)
(* holding wall().                                                          *)

VecNew(n) == [len |-> n, walls |-> {}]

VecInRange(m, i) == UsizeBelow(i, m.len)

VecGet(m, i) == IF i \in m.walls THEN Tile_wall ELSE Tile_empty

VecSet(m, i, t) ==
    [m EXCEPT !.walls = IF t = Tile_wall THEN @ \cup {i} ELSE @ \ {i}]

\* The assignments of make_map in program order; map[0] is the cell (0,0,0).
MapWrites ==
    << [x |-> 30, y |-> 22, z |-> 10, tile |-> Tile_wall],
       [x |-> 10, y |-> 22, z |-> 10, tile |-> Tile_wall],
       [x |-> 10, y |-> 12, z |-> 1,  tile |-> Tile_wall],
       [x |-> 15, y |-> 15, z |-> 0,  tile |-> Tile_empty],
       [x |-> 0,  y |-> 2,  z |-> 0,  tile |-> Tile_wall],
       [x |-> 30, y |-> 29, z |-> 1,  tile |-> Tile_wall],
       [x |-> 23, y |-> 6,  z |-> 0,  tile |-> Tile_wall],
       [x |-> 0,  y |-> 0,  z |-> 0,  tile |-> Tile_wall],
       [x |-> 6,  y |-> 6,  z |-> 1,  tile |-> Tile_wall],
       [x |-> 30, y |-> 25, z |-> 0,  tile |-> Tile_wall] >>

RECURSIVE ApplyWrites(_, _, _)
ApplyWrites(m, ws, k) ==
    IF k > Len(ws) THEN m
    ELSE ApplyWrites(
            VecSet(m, AsUsize(ws[k].x + MAP_WIDTH * (ws[k].y + MAP_DEPTH * ws[k].z)),
                   ws[k].tile),
            ws, k + 1)

make_map == ApplyWrites(VecNew(MAP_DEPTH * MAP_WIDTH * MAP_HEIGHT), MapWrites, 1)

-----------------------------------------------------------------------------
(* Object *)

Object_new(x, y, z, name, char, color, blocks) ==
    [x |-> x, y |-> y, z |-> z, name |-> name, char |-> char, color |-> color,
     blocks |-> blocks, alive |-> FALSE, standing |-> TRUE]

\* Mutant of Object_standing: the posture flips, blocks is left as it was.
Object_standing_keeps_blocks(self) == [self EXCEPT !.standing = ~@]

Object_standing(self) ==
    IF self.standing = FALSE
    THEN [self EXCEPT !.blocks = TRUE, !.standing = TRUE]
    ELSE [self EXCEPT !.blocks = FALSE, !.standing = FALSE]

Object_pos(self) == <<self.x, self.y, self.z>>

\* Object::set_pos
Object_set_pos(self, x, y, z) == [self EXCEPT !.x = x, !.y = y, !.z = z]

\* The index move_by computes for its lookup.
MoveIndex(self, dx, dy, dz) ==
    AsUsize((self.x + dx) + MAP_WIDTH * ((self.y + dy) + MAP_DEPTH * (self.z + dz)))

\* move_by panics (index out of bounds) when the index is outside the vector.
MovePanics(self, dx, dy, dz, m) == ~VecInRange(m, MoveIndex(self, dx, dy, dz))

\* Mutant of Object_move_by: dz is not added.
Object_move_by_drops_dz(self, dx, dy, dz, m) ==
    IF ~VecGet(m, MoveIndex(self, dx, dy, dz)).blocked
    THEN [self EXCEPT !.x = @ + dx, !.y = @ + dy]
    ELSE self

\* Mutant of Object_move_by: the move is committed without the lookup.
Object_move_by_unchecked(self, dx, dy, dz, m) ==
    [self EXCEPT !.x = @ + dx, !.y = @ + dy, !.z = @ + dz]

\* Mutant of Object_move_by: dy is added to z as well.
Object_move_by_z_slip(self, dx, dy, dz, m) ==
    IF ~VecGet(m, MoveIndex(self, dx, dy, dz)).blocked
    THEN [self EXCEPT !.x = @ + dx, !.y = @ + dy, !.z = @ + dy]
    ELSE self

\* move_by, for a lookup that succeeds.
Object_move_by(self, dx, dy, dz, m) ==
    IF ~VecGet(m, MoveIndex(self, dx, dy, dz)).blocked
    THEN [self EXCEPT !.x = @ + dx, !.y = @ + dy, !.z = @ + dz]
    ELSE self

-----------------------------------------------------------------------------
(* is_blocked *)

\* objects.iter().any(...) over the objects k, k+1, ... of a sequence
RECURSIVE AnyBlocking(_, _, _, _, _)
AnyBlocking(objs, k, x, y, z) ==
    IF k > Len(objs) THEN FALSE
    ELSE IF objs[k].blocks /\ Object_pos(objs[k]) = <<x, y, z>> THEN TRUE
    ELSE AnyBlocking(objs, k + 1, x, y, z)

\* Mutant of is_blocked: an object on the cell counts whatever its blocks flag.
is_blocked_any_object(x, y, z, m, objs) ==
    IF VecGet(m, mAlg(x, y, z)).blocked THEN TRUE
    ELSE \E k \in DOMAIN objs : Object_pos(objs[k]) = <<x, y, z>>

is_blocked(x, y, z, m, objs) ==
    IF VecGet(m, mAlg(x, y, z)).blocked THEN TRUE
    ELSE AnyBlocking(objs, 1, x, y, z)

-----------------------------------------------------------------------------
(* The turn loop of main *)

NoLookup == [made |-> FALSE]

NoProbe == [op |-> "none"]

InitLoopState ==
    /\ objects = [i \in 0..1 |->
                    IF i = 0
                    THEN Object_new(SCREEN_WIDTH \div 2, SCREEN_HEIGHT \div 2, 10,
                                    "Player", "@", "WHITE", TRUE)
                    ELSE Object_new(SCREEN_WIDTH \div 2 - 5, SCREEN_HEIGHT \div 2, 10,
                                    "Orc", "@", "YELLOW", TRUE)]
    /\ map = make_map
    /\ previous_player_position = <<-1, -1>>
    /\ fov_map = [computed |-> FALSE, x |-> 0, y |-> 0]
    /\ fov_recompute = FALSE
    /\ fullscreen = FALSE
    /\ key = "none"
    /\ lookup = NoLookup
    /\ con = {}
    /\ frame = {}
    /\ probe = NoProbe

Init == InitLoopState /\ pc = "render"

\* The consoles and the FOV map are MAP_WIDTH x MAP_HEIGHT.
OnConsole(x, y) == x >= 0 /\ x < MAP_WIDTH /\ y >= 0 /\ y < MAP_HEIGHT

\* compute_fov, is_in_fov and put_char belong to the tcod library.  With
\* coordinates on the console they return.  With coordinates off the console
\* the library either asserts (the process panics) or returns.
RenderOutcomes(objs) ==
    IF \A i \in DOMAIN objs : OnConsole(objs[i].x, objs[i].y)
    THEN {"ok"} ELSE {"ok", "panic"}

\* FovMap::compute_fov(x, y, TORCH_RADIUS, FOV_LIGHT_WALLS, FOV_ALGO)
compute_fov(fm, x, y) == [computed |-> TRUE, x |-> x, y |-> y]

\* render_all: recompute the FOV if asked to
render_all(fm, objs, recompute) ==
    IF recompute THEN compute_fov(fm, objs[0].x, objs[0].y) ELSE fm

\* Mutant of FovRecompute: only x is compared.
FovRecompute_x_only(prev, objs) == prev[1] # objs[PLAYER].x

\* The flag main computes before render_all.
FovRecompute(prev, objs) == prev # <<objs[PLAYER].x, objs[PLAYER].y>>

\* The opacity main hands to fov_map.set for the cell (x, y): the tile of
\* the layer FOV_LAYER does not block sight.
FovTransparent(m, x, y) ==
    OnConsole(x, y) /\ ~VecGet(m, mAlg(x, y, FOV_LAYER)).block_sight

\* The FOV computation itself belongs to the tcod library.  It is modelled
\* as a ray march: a cell is in the FOV of the latest compute_fov when it is
\* on the console, within TORCH_RADIUS of the viewpoint, no opaque cell lies
\* on the straight line before it, and it is transparent or walls are lit.
FovSteps(ox, oy, x, y) ==
    LET ax == IF x >= ox THEN x - ox ELSE ox - x
        ay == IF y >= oy THEN y - oy ELSE oy - y
    IN  IF ax >= ay THEN ax ELSE ay

FovLineCell(ox, oy, x, y, k, n) ==
    << ox + ((2 * k * (x - ox) + n) \div (2 * n)),
       oy + ((2 * k * (y - oy) + n) \div (2 * n)) >>

FovLineOfSight(m, ox, oy, x, y) ==
    LET n == FovSteps(ox, oy, x, y)
    IN  \A k \in 1..(n - 1) :
          FovTransparent(m, FovLineCell(ox, oy, x, y, k, n)[1],
                            FovLineCell(ox, oy, x, y, k, n)[2])

\* FovMap::is_in_fov(x, y); false for every cell before the first compute_fov
is_in_fov(fm, m, x, y) ==
    /\ fm.computed
    /\ OnConsole(x, y)
    /\ (x - fm.x) * (x - fm.x) + (y - fm.y) * (y - fm.y) <= TORCH_RADIUS * TORCH_RADIUS
    /\ FovLineOfSight(m, fm.x, fm.y, x, y)
    /\ (FovTransparent(m, x, y) \/ FOV_LIGHT_WALLS)

ConsoleCells == (0..(MAP_WIDTH - 1)) \X (0..(MAP_HEIGHT - 1))

\* Mutant of CellColor: the two colours of a cell outside the FOV are swapped.
CellColor_dark_swapped(visible, wall) ==
    CASE ~visible /\ wall -> "COLOR_DARK_GROUND"
      [] ~visible /\ ~wall -> "COLOR_DARK_WALL"
      [] visible /\ wall -> "COLOR_LIGHT_WALL"
      [] visible /\ ~wall -> "COLOR_LIGHT_GROUND"

\* render_all: the colour chosen for a cell
CellColor(visible, wall) ==
    CASE ~visible /\ wall -> "COLOR_DARK_WALL"
      [] ~visible /\ ~wall -> "COLOR_DARK_GROUND"
      [] visible /\ wall -> "COLOR_LIGHT_WALL"
      [] visible /\ ~wall -> "COLOR_LIGHT_GROUND"

\* render_all: the background colour set for every cell of the console
render_background(fm, m) ==
    [c \in ConsoleCells |->
        CellColor(is_in_fov(fm, m, c[1], c[2]),
                  VecGet(m, AsUsize(c[1] + MAP_WIDTH * (c[2] + MAP_DEPTH * RENDER_LAYER)))
                      .block_sight)]

\* Console::put_char on the glyph layer: a space erases, a cell off the
\* console is not written.
put_char(cn, x, y, ch) ==
    IF ~OnConsole(x, y) THEN cn
    ELSE IF ch = " " THEN cn \ {<<x, y>>}
    ELSE cn \cup {<<x, y>>}

\* Object::draw
Object_draw(self, cn) == put_char(cn, self.x, self.y, self.char)

\* Object::clear
Object_clear(self, cn) == put_char(cn, self.x, self.y, " ")

\* render_all: draw the objects i, i+1, ... that are in the FOV
RECURSIVE draw_objects(_, _, _, _, _)
draw_objects(cn, fm, m, objs, i) ==
    IF i \notin DOMAIN objs THEN cn
    ELSE draw_objects(IF is_in_fov(fm, m, objs[i].x, objs[i].y)
                      THEN Object_draw(objs[i], cn) ELSE cn,
                      fm, m, objs, i + 1)

\* Mutant of clear_objects: only the player is erased.
clear_objects_player_only(cn, objs, i) == Object_clear(objs[PLAYER], cn)

\* main: erase the objects i, i+1, ... at their locations
RECURSIVE clear_objects(_, _, _)
clear_objects(cn, objs, i) ==
    IF i \notin DOMAIN objs THEN cn
    ELSE clear_objects(Object_clear(objs[i], cn), objs, i + 1)

\* One pass of the loop body up to the wait for a key: the flag, render_all
\* (its background colours are those of render_background), blit and flush,
\* clear, and the record of the player's position.
Render ==
    /\ pc = "render"
    /\ \E outcome \in RenderOutcomes(objects) :
         IF outcome = "panic"
         THEN /\ pc' = "panic"
              /\ UNCHANGED <<fov_map, fov_recompute, previous_player_position,
                             con, frame>>
         ELSE /\ fov_recompute' = FovRecompute(previous_player_position, objects)
              /\ fov_map' = render_all(fov_map, objects, fov_recompute')
              /\ frame' = draw_objects(con, fov_map', map, objects, 0)
              /\ con' = clear_objects(frame', objects, 0)
              /\ previous_player_position' = <<objects[PLAYER].x, objects[PLAYER].y>>
              /\ pc' = "input"
    /\ UNCHANGED <<objects, map, fullscreen, key, lookup, probe>>

\* root.window_closed() is true at the top of the loop.
WindowClosed ==
    /\ pc = "render"
    /\ pc' = "done"
    /\ UNCHANGED <<objects, map, previous_player_position, fov_map, fov_recompute,
                   fullscreen, key, lookup, con, frame, probe>>

\* The model follows the player MaxOut cells beyond the console.
InModel(x, y) ==
    /\ x >= -MaxOut /\ x < MAP_WIDTH + MaxOut
    /\ y >= -MaxOut /\ y < MAP_HEIGHT + MaxOut

\* Mutant of MoveKey: the move is refused when is_blocked says that the
\* destination is occupied.
MoveKey_checks_occupancy(k, dx, dy) ==
    /\ pc = "input"
    /\ InModel(objects[PLAYER].x + dx, objects[PLAYER].y + dy)
    /\ key' = k
    /\ pc' = "render"
    /\ LET p == objects[PLAYER] IN
         /\ lookup' = [made |-> TRUE, x |-> p.x + dx, y |-> p.y + dy, z |-> p.z,
                       index |-> MoveIndex(p, dx, dy, 0),
                       blocked |-> VecGet(map, MoveIndex(p, dx, dy, 0)).blocked]
         /\ objects' = IF is_blocked(p.x + dx, p.y + dy, p.z, map,
                                     <<objects[0], objects[1]>>)
                       THEN objects
                       ELSE [objects EXCEPT ![PLAYER] = Object_move_by(p, dx, dy, 0, map)]
    /\ UNCHANGED <<map, previous_player_position, fov_map, fov_recompute,
                   fullscreen, con, frame, probe>>

\* handle_keys, a movement key: player.move_by(dx, dy, 0, map)
MoveKey(k, dx, dy) ==
    /\ pc = "input"
    /\ InModel(objects[PLAYER].x + dx, objects[PLAYER].y + dy)
    /\ key' = k
    /\ LET p == objects[PLAYER] IN
         IF MovePanics(p, dx, dy, 0, map)
         THEN /\ pc' = "panic"
              /\ lookup' = [made |-> TRUE, x |-> p.x + dx, y |-> p.y + dy, z |-> p.z,
                            index |-> MoveIndex(p, dx, dy, 0), blocked |-> FALSE]
              /\ UNCHANGED objects
         ELSE /\ pc' = "render"
              /\ lookup' = [made |-> TRUE, x |-> p.x + dx, y |-> p.y + dy, z |-> p.z,
                            index |-> MoveIndex(p, dx, dy, 0),
                            blocked |-> VecGet(map, MoveIndex(p, dx, dy, 0)).blocked]
              /\ objects' = [objects EXCEPT ![PLAYER] = Object_move_by(p, dx, dy, 0, map)]
    /\ UNCHANGED <<map, previous_player_position, fov_map, fov_recompute,
                   fullscreen, con, frame, probe>>

KeyUp == MoveKey("Up", 0, -1)
KeyDown == MoveKey("Down", 0, 1)
KeyLeft == MoveKey("Left", -1, 0)
KeyRight == MoveKey("Right", 1, 0)

\* handle_keys, 's': player.standing()
KeyS ==
    /\ pc = "input"
    /\ key' = "s"
    /\ lookup' = NoLookup
    /\ objects' = [objects EXCEPT ![PLAYER] = Object_standing(@)]
    /\ pc' = "render"
    /\ UNCHANGED <<map, previous_player_position, fov_map, fov_recompute,
                   fullscreen, con, frame, probe>>

\* handle_keys, Alt+Enter: toggle fullscreen
KeyAltEnter ==
    /\ pc = "input"
    /\ key' = "AltEnter"
    /\ lookup' = NoLookup
    /\ fullscreen' = ~fullscreen
    /\ pc' = "render"
    /\ UNCHANGED <<objects, map, previous_player_position, fov_map, fov_recompute,
                   con, frame, probe>>

\* Mutant of KeyEscape: the Escape arm returns false and the loop goes on.
KeyEscape_continues ==
    /\ pc = "input"
    /\ key' = "Escape"
    /\ lookup' = NoLookup
    /\ pc' = "render"
    /\ UNCHANGED <<objects, map, previous_player_position, fov_map, fov_recompute,
                   fullscreen, con, frame, probe>>

\* handle_keys, Escape: return true, main breaks out of the loop
KeyEscape ==
    /\ pc = "input"
    /\ key' = "Escape"
    /\ lookup' = NoLookup
    /\ pc' = "done"
    /\ UNCHANGED <<objects, map, previous_player_position, fov_map, fov_recompute,
                   fullscreen, con, frame, probe>>

\* Mutant of KeyOther: the `_` arm returns true and main leaves the loop.
KeyOther_exits ==
    /\ pc = "input"
    /\ key' = "other"
    /\ lookup' = NoLookup
    /\ pc' = "done"
    /\ UNCHANGED <<objects, map, previous_player_position, fov_map, fov_recompute,
                   fullscreen, con, frame, probe>>

\* handle_keys, any other key: the `_ => {}` arm
KeyOther ==
    /\ pc = "input"
    /\ key' = "other"
    /\ lookup' = NoLookup
    /\ pc' = "render"
    /\ UNCHANGED <<objects, map, previous_player_position, fov_map, fov_recompute,
                   fullscreen, con, frame, probe>>

Next ==
    \/ Render
    \/ WindowClosed
    \/ KeyUp
    \/ KeyDown
    \/ KeyLeft
    \/ KeyRight
    \/ KeyS
    \/ KeyAltEnter
    \/ KeyEscape
    \/ KeyOther

Spec == Init /\ [][Next]_vars

-----------------------------------------------------------------------------
(* Direct calls of the operations, on inputs drawn from bounded sets.  Each  *)
(* behaviour makes one call, or constructs one object and calls its methods. *)

\* Cells the probes are centred on: the cells make_map writes, the cells
\* whose index coincides with one of those, the two objects of main, and
\* corners of the map.
ProbeAnchors ==
    { <<MapWrites[k].x, MapWrites[k].y, MapWrites[k].z>> : k \in DOMAIN MapWrites }
    \cup { <<30, 42, 9>>, <<30, 2, 11>>, <<10, 32, 0>>, <<30, 49, 0>>, <<6, 26, 0>>,
           <<30, 5, 1>> }
    \cup { <<45, 30, 10>>, <<40, 30, 10>> }
    \cup { <<0, 0, 10>>, <<MAP_WIDTH - 1, MAP_HEIGHT - 1, MAP_DEPTH - 1>>,
           <<MAP_WIDTH - 1, 0, 0>>, <<0, MAP_HEIGHT - 1, MAP_DEPTH - 1>> }

Near(a) ==
    { <<a[1] + ex, a[2] + ey, a[3] + ez>> :
        ex \in -ProbeRadius..ProbeRadius,
        ey \in -ProbeRadius..ProbeRadius,
        ez \in -ProbeRadius..ProbeRadius }

ProbeCells == UNION { Near(a) : a \in ProbeAnchors }

InBounds(x, y, z) ==
    /\ x >= 0 /\ x < MAP_WIDTH
    /\ y >= 0 /\ y < MAP_HEIGHT
    /\ z >= 0 /\ z < MAP_DEPTH

ProbeCellsInBounds == { c \in ProbeCells : InBounds(c[1], c[2], c[3]) }

InitUnit == InitLoopState /\ pc = "unit"

loopVars == <<objects, map, previous_player_position, fov_map, fov_recompute,
              fullscreen, key, lookup, pc, con, frame>>

\* Object::new(x, y, z, ..., blocks)
UnitNew ==
    /\ pc = "unit"
    /\ probe.op = "none"
    /\ \E c \in ProbeCells, blocks \in BOOLEAN :
         probe' = [op |-> "new", calls |-> 0,
                   orig |-> Object_new(c[1], c[2], c[3], "Probe", "@", "WHITE", blocks),
                   obj |-> Object_new(c[1], c[2], c[3], "Probe", "@", "WHITE", blocks)]
    /\ UNCHANGED loopVars

\* object.standing() on the object constructed by UnitNew
UnitStanding ==
    /\ pc = "unit"
    /\ probe.op \in {"new", "standing"}
    /\ probe.calls < MaxCalls
    /\ probe' = [op |-> "standing", calls |-> probe.calls + 1, orig |-> probe.orig,
                 obj |-> Object_standing(probe.obj)]
    /\ UNCHANGED loopVars

\* Positions handed to set_pos: the anchors, in-bounds or not, and two cells
\* away from every anchor.
SetPosTargets == ProbeAnchors \cup { <<1, 2, 3>>, <<0, 0, MAP_HEIGHT>> }

\* object.set_pos(x, y, z) on the object constructed by UnitNew
UnitSetPos ==
    /\ pc = "unit"
    /\ probe.op = "new"
    /\ \E t \in SetPosTargets :
         probe' = [op |-> "set_pos", before |-> probe.obj,
                   x |-> t[1], y |-> t[2], z |-> t[3],
                   after |-> Object_set_pos(probe.obj, t[1], t[2], t[3])]
    /\ UNCHANGED loopVars

\* object.move_by(dx, dy, dz, &map) on the object of UnitNew / UnitStanding
UnitMoveBy ==
    /\ pc = "unit"
    /\ probe.op \in {"new", "standing"}
    /\ \E dx \in -1..1, dy \in -1..1, dz \in -1..1 :
         probe' = [op |-> "move_by", before |-> probe.obj,
                   dx |-> dx, dy |-> dy, dz |-> dz,
                   panicked |-> MovePanics(probe.obj, dx, dy, dz, map),
                   after |-> IF MovePanics(probe.obj, dx, dy, dz, map)
                             THEN probe.obj
                             ELSE Object_move_by(probe.obj, dx, dy, dz, map)]
    /\ UNCHANGED loopVars

\* Maps handed to is_blocked: the map of make_map, an all-empty map, and an
\* all-empty map with a wall at the cell asked about.
ProbeMaps(c) ==
    { make_map,
      VecNew(MAP_DEPTH * MAP_WIDTH * MAP_HEIGHT),
      VecSet(VecNew(MAP_DEPTH * MAP_WIDTH * MAP_HEIGHT), mAlg(c[1], c[2], c[3]),
             Tile_wall) }

\* Objects handed to is_blocked: at the cell, or one step away from it along
\* one axis, or at the cell twenty rows down on the layer above; blocking or not.
ProbeObjects(c) ==
    { Object_new(p[1], p[2], p[3], "Probe", "@", "WHITE", b) :
        p \in { c, <<c[1] + 1, c[2], c[3]>>, <<c[1], c[2] + 1, c[3]>>,
                <<c[1], c[2], c[3] + 1>>, <<c[1], c[2] + MAP_DEPTH, c[3] - 1>> },
        b \in BOOLEAN }

ProbeLists(c) ==
    { <<>> } \cup { <<o>> : o \in ProbeObjects(c) }
             \cup { <<o1, o2>> : o1 \in ProbeObjects(c), o2 \in ProbeObjects(c) }

\* is_blocked(x, y, z, &map, &objects) for an in-bounds cell
UnitIsBlocked ==
    /\ pc = "unit"
    /\ probe.op = "none"
    /\ \E c \in ProbeCellsInBounds :
         \E m \in ProbeMaps(c), objs \in ProbeLists(c) :
           probe' = [op |-> "is_blocked", x |-> c[1], y |-> c[2], z |-> c[3],
                     map |-> m, objects |-> objs,
                     result |-> is_blocked(c[1], c[2], c[3], m, objs)]
    /\ UNCHANGED loopVars

\* map[mAlg(x, y, z)] for every in-bounds cell of the map of make_map
UnitTileAt ==
    /\ pc = "unit"
    /\ probe.op = "none"
    /\ \E x \in 0..(MAP_WIDTH - 1), y \in 0..(MAP_HEIGHT - 1), z \in 0..(MAP_DEPTH - 1) :
         probe' = [op |-> "tile", x |-> x, y |-> y, z |-> z,
                   index |-> mAlg(x, y, z),
                   in_range |-> VecInRange(map, mAlg(x, y, z)),
                   tile |-> VecGet(map, mAlg(x, y, z))]
    /\ UNCHANGED loopVars

\* Player positions handed to render_all: unblocked probe cells on the
\* console, on the layer main puts the player on.
RenderCells ==
    { c \in ProbeCells :
        /\ c[3] = objects[PLAYER].z
        /\ OnConsole(c[1], c[2])
        /\ ~VecGet(map, mAlg(c[1], c[2], c[3])).blocked }

\* render_all(root, con, &objects, &map, &mut fov_map, fov_recompute) on an
\* empty console, before and after a first compute_fov
UnitRenderAll ==
    /\ pc = "unit"
    /\ probe.op = "none"
    /\ \E c \in RenderCells, rc \in BOOLEAN,
          fb \in {fov_map, compute_fov(fov_map, objects[PLAYER].x, objects[PLAYER].y)} :
         LET objs == [objects EXCEPT ![PLAYER].x = c[1], ![PLAYER].y = c[2]]
             fa == render_all(fb, objs, rc)
         IN  probe' = [op |-> "render_all", objects |-> objs, recompute |-> rc,
                       fov_before |-> fb, fov_after |-> fa,
                       bg |-> render_background(fa, map),
                       glyphs |-> draw_objects({}, fa, map, objs, 0)]
    /\ UNCHANGED loopVars

NextUnit ==
    \/ UnitNew
    \/ UnitStanding
    \/ UnitMoveBy
    \/ UnitSetPos
    \/ UnitIsBlocked
    \/ UnitTileAt
    \/ UnitRenderAll

SpecUnit == InitUnit /\ [][NextUnit]_vars

-----------------------------------------------------------------------------
(* Properties *)

MoveKeys == {"Up", "Down", "Left", "Right"}

\* The tile stored for the cell (x, y, z) of the map m.
TileOf(m, x, y, z) == VecGet(m, mAlg(x, y, z))

\* C1: move_by with a lookup that succeeds leaves the object as it was when
\* the tile looked up for the destination is blocked, and otherwise adds
\* exactly (dx, dy, dz) to the position; name, glyph, colour, blocks, alive
\* and standing are never changed.
C1_MoveBy ==
    (probe.op = "move_by" /\ ~probe.panicked) =>
        LET b == probe.before
            a == probe.after
            destBlocked ==
                TileOf(map, b.x + probe.dx, b.y + probe.dy, b.z + probe.dz).blocked
        IN  /\ destBlocked => <<a.x, a.y, a.z>> = <<b.x, b.y, b.z>>
            /\ ~destBlocked =>
                 <<a.x, a.y, a.z>> = <<b.x + probe.dx, b.y + probe.dy, b.z + probe.dz>>
            /\ [a EXCEPT !.x = 0, !.y = 0, !.z = 0] = [b EXCEPT !.x = 0, !.y = 0, !.z = 0]

\* Witness of C1: a move with a non-zero delta in all three axes was refused
\* because the destination tile is blocked.
C1_Witness ==
    /\ probe.op = "move_by" /\ ~probe.panicked
    /\ probe.dx # 0 /\ probe.dy # 0 /\ probe.dz # 0
    /\ TileOf(map, probe.before.x + probe.dx, probe.before.y + probe.dy,
              probe.before.z + probe.dz).blocked
    /\ probe.after = probe.before

\* C2: for an in-bounds cell, is_blocked is true exactly when the tile of the
\* cell is blocked or some object with blocks = TRUE stands exactly on the cell.
C2_IsBlocked ==
    probe.op = "is_blocked" =>
        probe.result =
            (\/ TileOf(probe.map, probe.x, probe.y, probe.z).blocked
             \/ \E k \in DOMAIN probe.objects :
                  /\ probe.objects[k].blocks
                  /\ probe.objects[k].x = probe.x
                  /\ probe.objects[k].y = probe.y
                  /\ probe.objects[k].z = probe.z)

\* Witness of C2: the only object on an unblocked cell does not block, another
\* cell holds a blocking object, and the answer is FALSE.
C2_Witness ==
    /\ probe.op = "is_blocked"
    /\ ~TileOf(probe.map, probe.x, probe.y, probe.z).blocked
    /\ Len(probe.objects) = 2
    /\ ~probe.objects[1].blocks
    /\ Object_pos(probe.objects[1]) = <<probe.x, probe.y, probe.z>>
    /\ probe.objects[2].blocks
    /\ Object_pos(probe.objects[2]) # <<probe.x, probe.y, probe.z>>
    /\ probe.result = FALSE

\* C3: a render recomputes the FOV exactly when the player's (x, y) differs
\* from the (x, y) recorded at the previous render ((-1, -1) before the first
\* one); the FOV map changes in render steps only, so at most once per turn.
C3_Recompute ==
    [][ /\ (pc = "render" /\ pc' = "input") =>
             /\ fov_recompute' =
                  (previous_player_position # <<objects[PLAYER].x, objects[PLAYER].y>>)
             /\ fov_recompute' =>
                  fov_map' = [computed |-> TRUE, x |-> objects[PLAYER].x,
                              y |-> objects[PLAYER].y]
             /\ ~fov_recompute' => fov_map' = fov_map
        /\ ~(pc = "render" /\ pc' = "input") =>
             /\ fov_map' = fov_map
             /\ fov_recompute' = fov_recompute ]_vars

\* Witness of C3: the player has moved, and the latest render, after a key
\* that did not move the player, did not recompute.
C3_Witness ==
    /\ pc = "input"
    /\ key = "s"
    /\ <<objects[PLAYER].x, objects[PLAYER].y>> # <<SCREEN_WIDTH \div 2, SCREEN_HEIGHT \div 2>>
    /\ fov_recompute = FALSE
    /\ fov_map = [computed |-> TRUE, x |-> objects[PLAYER].x, y |-> objects[PLAYER].y]

\* C4 (as claimed): after Object::new and two calls of standing() the object
\* is as it was constructed.
C4_TwoToggles ==
    (probe.op = "standing" /\ probe.calls = 2) => probe.obj = probe.orig

\* C5: in the turn loop every object has blocks = standing; the 's' key flips
\* both flags of the player in one step and no other step changes a flag.
C5_BlocksIsStanding ==
    /\ [](\A i \in DOMAIN objects : objects[i].blocks = objects[i].standing)
    /\ [][ \A i \in DOMAIN objects :
             IF pc = "input" /\ key' = "s" /\ i = PLAYER
             THEN /\ objects'[i].standing = ~objects[i].standing
                  /\ objects'[i].blocks = objects'[i].standing
             ELSE /\ objects'[i].standing = objects[i].standing
                  /\ objects'[i].blocks = objects[i].blocks ]_vars

\* Witness of C5: the player lies down and does not block.
C5_Witness ==
    /\ key = "s"
    /\ objects[PLAYER].standing = FALSE
    /\ objects[PLAYER].blocks = FALSE

\* The tile the assignments of make_map name for the cell (x, y, z): the
\* latest assignment written for that coordinate, the empty tile without one.
RECURSIVE Authored(_, _, _, _)
Authored(k, x, y, z) ==
    IF k = 0 THEN Tile_empty
    ELSE IF <<MapWrites[k].x, MapWrites[k].y, MapWrites[k].z>> = <<x, y, z>>
         THEN MapWrites[k].tile
         ELSE Authored(k - 1, x, y, z)

\* C6 (as claimed): the tile read at the index of an in-bounds (x, y, z) is
\* the tile authored for that coordinate, the empty tile without one.
C6_TileAt ==
    probe.op = "tile" =>
        probe.tile = Authored(Len(MapWrites), probe.x, probe.y, probe.z)

\* C7 (as claimed): the player stays inside the map and every lookup of
\* move_by is made at an in-bounds destination.
C7_InBounds ==
    /\ InBounds(objects[PLAYER].x, objects[PLAYER].y, objects[PLAYER].z)
    /\ lookup.made => InBounds(lookup.x, lookup.y, lookup.z)

\* C8: a move whose destination is a wall leaves the objects as they were, the
\* render that follows does not recompute and leaves the FOV map as it was,
\* and the FOV map only ever changes to the player's (x, y) when that differs
\* from the viewpoint it was computed from.
C8_WallMove ==
    [][ /\ (pc = "input" /\ key' \in MoveKeys
                /\ TileOf(map, lookup'.x, lookup'.y, lookup'.z).blocked) =>
             /\ objects' = objects
             /\ fov_map' = fov_map
        /\ (pc = "render" /\ pc' = "input" /\ key \in MoveKeys
                /\ TileOf(map, lookup.x, lookup.y, lookup.z).blocked) =>
             /\ fov_recompute' = FALSE
             /\ fov_map' = fov_map
        /\ (fov_map' # fov_map) =>
             /\ <<fov_map'.x, fov_map'.y>> = <<objects[PLAYER].x, objects[PLAYER].y>>
             /\ fov_map.computed =>
                  <<fov_map.x, fov_map.y>> # <<objects[PLAYER].x, objects[PLAYER].y>> ]_vars

\* Witness of C8: the latest key was a move into a wall and the render after
\* it has run without recomputing.
C8_Witness ==
    /\ pc = "input"
    /\ key \in MoveKeys
    /\ TileOf(map, lookup.x, lookup.y, lookup.z).blocked
    /\ <<lookup.x, lookup.y>> # <<objects[PLAYER].x, objects[PLAYER].y>>
    /\ fov_recompute = FALSE
    /\ fov_map = [computed |-> TRUE, x |-> objects[PLAYER].x, y |-> objects[PLAYER].y]

\* C9: the NPC and the map are, in every state of the turn loop, as they were
\* constructed.
C9_OnlyPlayer ==
    /\ objects[1] = Object_new(SCREEN_WIDTH \div 2 - 5, SCREEN_HEIGHT \div 2, 10,
                               "Orc", "@", "YELLOW", TRUE)
    /\ map = make_map

\* Witness of C9: the player has moved and lies down; the NPC is untouched.
C9_Witness ==
    /\ objects[0].x # SCREEN_WIDTH \div 2
    /\ objects[0].y # SCREEN_HEIGHT \div 2
    /\ objects[0].standing = FALSE
    /\ objects[1].x = SCREEN_WIDTH \div 2 - 5
    /\ objects[1].standing = TRUE

\* C10: an unrecognized key and Alt+Enter leave the objects, the recorded
\* position and the FOV map as they were and hand control back to the loop
\* (no exit, no panic); the render that follows does not recompute.
C10_NoEffect ==
    [][ /\ (pc = "input" /\ key' \in {"other", "AltEnter"}) =>
             /\ objects' = objects
             /\ map' = map
             /\ previous_player_position' = previous_player_position
             /\ fov_map' = fov_map
             /\ pc' = "render"
        /\ (pc = "render" /\ pc' = "input" /\ key \in {"other", "AltEnter"}) =>
             /\ fov_recompute' = FALSE
             /\ fov_map' = fov_map ]_vars

\* Witness of C10: after a move, Alt+Enter was pressed and the render after it
\* has run without recomputing.
C10_Witness ==
    /\ pc = "input"
    /\ key = "AltEnter"
    /\ fullscreen
    /\ objects[PLAYER].x # SCREEN_WIDTH \div 2
    /\ fov_recompute = FALSE

\* C11: Escape ends the loop with the objects, the FOV map and the recorded
\* position as they were, and a closed window ends it at the top of the loop;
\* nothing happens after the end.  Every other key hands control to the top
\* of the loop, and a key is only ever awaited right after a render.
C11_Termination ==
    [][ /\ (pc = "input" /\ key' = "Escape") =>
             /\ pc' = "done"
             /\ objects' = objects
             /\ map' = map
             /\ fov_map' = fov_map
             /\ fov_recompute' = fov_recompute
             /\ previous_player_position' = previous_player_position
        /\ (pc = "input" /\ key' # "Escape") => pc' = "render"
        /\ (pc = "render" /\ pc' = "done") =>
             /\ objects' = objects
             /\ fov_map' = fov_map
             /\ fov_recompute' = fov_recompute
        /\ (pc' = "input") => pc = "render"
        /\ (pc = "done") => UNCHANGED vars ]_vars

\* Witness of C11: the player moved and lay down, then Escape ended the loop.
C11_Witness ==
    /\ pc = "done"
    /\ key = "Escape"
    /\ objects[PLAYER].x # SCREEN_WIDTH \div 2
    /\ objects[PLAYER].standing = FALSE
    /\ fov_map = [computed |-> TRUE, x |-> objects[PLAYER].x, y |-> objects[PLAYER].y]

\* C12: after render_all the background colour of every console cell is
\* fixed by whether the cell is in the FOV and whether the tile of that cell
\* on the player's layer blocks sight: dark wall, dark ground, light wall,
\* light ground.
C12_Background ==
    probe.op = "render_all" =>
        /\ DOMAIN probe.bg = ConsoleCells
        /\ \A c \in ConsoleCells :
             LET visible == is_in_fov(probe.fov_after, map, c[1], c[2])
                 wall == TileOf(map, c[1], c[2], probe.objects[PLAYER].z).block_sight
             IN  probe.bg[c] =
                    IF visible
                    THEN (IF wall THEN "COLOR_LIGHT_WALL" ELSE "COLOR_LIGHT_GROUND")
                    ELSE (IF wall THEN "COLOR_DARK_WALL" ELSE "COLOR_DARK_GROUND")

\* Witness of C12: a rendered console on which all four colours occur.
C12_Witness ==
    /\ probe.op = "render_all"
    /\ probe.bg[<<30, 22>>] = "COLOR_LIGHT_WALL"
    /\ probe.bg[<<10, 22>>] = "COLOR_DARK_WALL"
    /\ probe.bg[<<probe.objects[PLAYER].x, probe.objects[PLAYER].y>>] = "COLOR_LIGHT_GROUND"
    /\ probe.bg[<<0, 0>>] = "COLOR_DARK_GROUND"

\* C13: in the frame committed by a render exactly the cells of the objects
\* that are in the current FOV hold a glyph, and after the erase that follows
\* the flush the offscreen console holds no glyph at all.
C13_Glyphs ==
    (pc = "input") =>
        /\ frame = { <<objects[i].x, objects[i].y>> :
                       i \in { j \in DOMAIN objects :
                                 is_in_fov(fov_map, map, objects[j].x, objects[j].y) } }
        /\ con = {}

\* Witness of C13: the NPC was drawn in an earlier frame, the player has
\* walked away, and the latest frame shows the player alone.
C13_Witness ==
    /\ pc = "input"
    /\ objects[PLAYER].x > objects[1].x + TORCH_RADIUS + 5
    /\ frame = { <<objects[PLAYER].x, objects[PLAYER].y>> }
    /\ ~is_in_fov(fov_map, map, objects[1].x, objects[1].y)

\* The step a movement key asks for.
KeyDelta(k) ==
    CASE k = "Up" -> <<0, -1, 0>>
      [] k = "Down" -> <<0, 1, 0>>
      [] k = "Left" -> <<-1, 0, 0>>
      [] k = "Right" -> <<1, 0, 0>>

\* C15: a movement key puts the player on the destination cell whenever the
\* tile looked up for it is not blocked, whether or not is_blocked reports
\* the cell as occupied by a blocking object.
C15_TerrainOnly ==
    [][ (pc = "input" /\ key' \in MoveKeys /\ pc' = "render") =>
            LET p == objects[PLAYER]
                d == KeyDelta(key')
            IN  Object_pos(objects'[PLAYER]) =
                    IF TileOf(map, p.x + d[1], p.y + d[2], p.z + d[3]).blocked
                    THEN Object_pos(p)
                    ELSE <<p.x + d[1], p.y + d[2], p.z + d[3]>> ]_vars

\* Witness of C15: the latest key moved the player onto the cell of the
\* standing, blocking NPC, a cell is_blocked reports as blocked.
C15_Witness ==
    /\ key \in MoveKeys
    /\ <<lookup.x, lookup.y, lookup.z>> = Object_pos(objects[1])
    /\ Object_pos(objects[PLAYER]) = Object_pos(objects[1])
    /\ objects[1].standing /\ objects[1].blocks
    /\ ~TileOf(map, objects[1].x, objects[1].y, objects[1].z).blocked
    /\ is_blocked(objects[1].x, objects[1].y, objects[1].z, map, <<objects[1]>>)

\* C16: whenever a render has run, the FOV map has been computed and its
\* viewpoint is the player's (x, y): the queries of that render were answered
\* from the player's position.
C16_FovCurrent ==
    (pc = "input") =>
        /\ fov_map.computed
        /\ <<fov_map.x, fov_map.y>> = <<objects[PLAYER].x, objects[PLAYER].y>>

\* Witness of C16: the player moved up and the render after it recomputed
\* from the new position.
C16_Witness ==
    /\ pc = "input"
    /\ key = "Up"
    /\ fov_recompute
    /\ objects[PLAYER].y < SCREEN_HEIGHT \div 2
    /\ fov_map = [computed |-> TRUE, x |-> objects[PLAYER].x, y |-> objects[PLAYER].y]

\* C17: every object is on layer 10 in every state of the turn loop, the
\* layer the FOV map is built from and render_all reads, and every lookup of
\* move_by is made for that layer.
C17_Layer ==
    /\ FOV_LAYER = RENDER_LAYER
    /\ \A i \in DOMAIN objects : objects[i].z = RENDER_LAYER
    /\ lookup.made => lookup.z = RENDER_LAYER

\* Witness of C17: the player has moved along both axes, last of all into a
\* lookup that let it pass.
C17_Witness ==
    /\ lookup.made
    /\ ~lookup.blocked
    /\ objects[PLAYER].x # SCREEN_WIDTH \div 2
    /\ objects[PLAYER].y # SCREEN_HEIGHT \div 2
    /\ objects[PLAYER].z = FOV_LAYER

\* C18: the index of every in-bounds (x, y, z), and of every cell make_map
\* writes, is at least 0 and less than MAP_DEPTH * MAP_WIDTH * MAP_HEIGHT,
\* the length of the vector.
C18_IndexInRange ==
    /\ map.len = MAP_DEPTH * MAP_WIDTH * MAP_HEIGHT
    /\ probe.op = "tile" =>
         /\ probe.index[1] = 0 /\ probe.index[2] = 0
         /\ probe.index[3] * USIZE_LIMB + probe.index[4] >= 0
         /\ probe.index[3] * USIZE_LIMB + probe.index[4]
                < MAP_DEPTH * MAP_WIDTH * MAP_HEIGHT
         /\ probe.in_range
    /\ \A k \in DOMAIN MapWrites :
         /\ InBounds(MapWrites[k].x, MapWrites[k].y, MapWrites[k].z)
         /\ VecInRange(map, mAlg(MapWrites[k].x, MapWrites[k].y, MapWrites[k].z))

\* Witness of C18: the lookup at the last cell of the map, whose index is the
\* largest one an in-bounds cell has.
C18_Witness ==
    /\ probe.op = "tile"
    /\ <<probe.x, probe.y, probe.z>> = <<MAP_WIDTH - 1, MAP_HEIGHT - 1, MAP_DEPTH - 1>>
    /\ probe.index[1] = 0 /\ probe.index[2] = 0
    /\ probe.index[3] * USIZE_LIMB + probe.index[4] =
         (MAP_WIDTH - 1) + MAP_WIDTH * ((MAP_HEIGHT - 1) + MAP_DEPTH * (MAP_DEPTH - 1))
    /\ probe.in_range

====
